---- MODULE Spec2Model ----
(***************************************************************************)
(* Offline-first persistence and synchronisation layer of card-scan:       *)
(*   OfflineStorageService  (IndexedDB: cards store, pendingUploads store) *)
(*   StorageService         (Firestore collection business_cards)          *)
(*   EnhancedStorageService (the facade deciding between the two)          *)
(* Facade calls are modelled as one step each; a drain                     *)
(* (OfflineStorageService.syncPendingUploads) is one step for its start    *)
(* and one step per pending upload of its snapshot, so that other calls    *)
(* interleave between two uploads of a drain. Further parts: the same      *)
(* calls with local store operations that fail, an online getCards one     *)
(* IndexedDB request at a time beside a getCachedCards, and the            *)
(* OfflineIndicator component that starts the drains.                      *)
(***************************************************************************)
EXTENDS Integers, Sequences, FiniteSets, TLC

(* ------------------------------ bounds -------------------------------- *)
\* number of facade saveCard calls in a run
MaxSaves == 2
\* size of the pool the random pendingUpload ids are drawn from
MaxUuid == 2
\* number of remote creates that succeed in a run with a failing local store
MaxDocs == 3

(* ------------------------- program constants -------------------------- *)
\* `if (pending.retryCount >= 3)`
MaxRetries == 3

(* ------------------------------ values -------------------------------- *)
Users == {"u1", "u2"}
\* an absent (undefined) string field
Undefined == "undefined"
\* an absent id; ids are <<prefix, n>>
NoId == <<"", 0>>
\* an absent timestamp (falsy); Date values are the positive clock readings
NoTimestamp == 0
\* a timestamp string that does not parse: new Date(timestamp).getTime() is NaN
BadTimestamp == -1
\* the optional string fields the duplicate check reads (name, phone, mobile)
\* are sequences of characters; an absent or empty one (both falsy) is <<>>
NoString == <<>>
Names == {<<"J", "a", "n", "e">>}
\* the callers of syncPendingUploads that can have a drain in flight
Drainers == {"indicator", "facade"}

\* BusinessCardData, reduced to the fields the storage layer reads
Card(id, userId, name, timestamp) ==
    [id |-> id, userId |-> userId, name |-> name, timestamp |-> timestamp,
     phone |-> NoString, mobile |-> NoString]

\* a temporary id under another prefix than the one the facade tests for
OfflineIdOtherPrefix(uuid) == <<"local_", uuid>>

\* `offline_${crypto.randomUUID()}`
OfflineId(uuid) == <<"offline_", uuid>>
\* docRef.id, assigned by Firestore
DocId(n) == <<"doc", n>>
\* cardId.startsWith('offline_')
StartsWithOffline(id) == id[1] = "offline_"

Range(s) == {s[i] : i \in DOMAIN s}
Ids(S) == {c.id : c \in S}

VARIABLES
    online,          \* navigator.onLine
    clock,           \* Date.now()
    cards,           \* IndexedDB object store 'cards' (keyPath id)
    pendingUploads,  \* IndexedDB object store 'pendingUploads' (keyPath id)
    remote,          \* Firestore collection, most recently updated first
    uuids,           \* number of offline_ uuids generated so far
    docs,            \* number of Firestore document ids generated so far
    saves,           \* number of facade saveCard calls so far
    drain,           \* per caller: the syncPendingUploads call in flight
    last,            \* outcome of the latest facade call
    tx,              \* the cacheCards transaction on the 'cards' store in
                     \* flight, and the getCachedCards call waiting for it
    indicator,       \* the OfflineIndicator component: its userId prop, its
                     \* state, and the state its registered listeners captured
    ghost            \* history of each offline save, by its pendingUpload id:
                     \*   tmp          the offline_ id saveCard returned
                     \*   owner        the userId of the call
                     \*   fresh        the card passed had no userId of its own
                     \*   stillOffline the device has been offline ever since
                     \*   made         remote creates that succeeded for it (by
                     \*                saveCard before it fell back, by drains)
                     \*   abandoned    dequeued after too many retries
                     \*   deleted      deleteCard was called on tmp

vars == <<online, clock, cards, pendingUploads, remote, uuids, docs, saves,
          drain, last, tx, indicator, ghost>>


(* ---------------- OfflineStorageService (IndexedDB) ------------------- *)
\* store.put(record): insert or replace by primary key
Put(store, record) == {r \in store : r.id # record.id} \cup {record}

\* order of IndexedDB string keys, for the two id shapes of the model
PrefixRank(prefix) ==
    CASE prefix = "doc" -> 1 [] prefix = "offline_" -> 2 [] OTHER -> 0
KeyLess(a, b) ==
    \/ PrefixRank(a[1]) < PrefixRank(b[1])
    \/ PrefixRank(a[1]) = PrefixRank(b[1]) /\ a[2] < b[2]

\* isNaN(new Date(timestamp).getTime())
InvalidDate(timestamp) == timestamp = BadTimestamp

\* comparator of getCachedCards, new Date(b.timestamp || 0).getTime() -
\* new Date(a.timestamp || 0).getTime(), being negative: a sorts before b. A
\* missing timestamp reads as time 0; with a timestamp that does not parse the
\* comparator is NaN, which the sort takes for 0.
NewerFirst(a, b) ==
    /\ ~InvalidDate(a.timestamp)
    /\ ~InvalidDate(b.timestamp)
    /\ a.timestamp > b.timestamp

\* the result of index.getAll: the records in ascending order of primary key
RECURSIVE IndexOrder(_)
IndexOrder(S) ==
    IF S = {} THEN <<>>
    ELSE LET first == CHOOSE c \in S : \A d \in S \ {c} : KeyLess(c.id, d.id)
         IN  <<first>> \o IndexOrder(S \ {first})

\* Array.prototype.sort is stable: a record moves before the records it
\* compares as newer than, and stays behind those it compares as equal to.
\* (Where timestamps that do not parse make the comparator inconsistent the
\* order is left to the engine; the model takes the order of an insertion
\* sort.)
RECURSIVE Insert(_, _)
Insert(sorted, card) ==
    IF sorted # <<>> /\ NewerFirst(card, sorted[Len(sorted)])
    THEN Insert(SubSeq(sorted, 1, Len(sorted) - 1), card) \o <<sorted[Len(sorted)]>>
    ELSE sorted \o <<card>>

RECURSIVE InsertionSort(_)
InsertionSort(cs) ==
    IF cs = <<>> THEN <<>>
    ELSE Insert(InsertionSort(SubSeq(cs, 1, Len(cs) - 1)), cs[Len(cs)])

SortCards(S) == InsertionSort(IndexOrder(S))

\* index 'userId' of a store: the records whose userId property is userId
\* (a record without the property is not in the index)
UserIndex(store, userId) == {r \in store : r.userId = userId}

RECURSIVE PutAll(_, _, _)
PutAll(store, userId, cs) ==
    IF cs = <<>> THEN store
    ELSE LET card == Head(cs)
             next == IF card.id # NoId
                     THEN Put(store, [card EXCEPT !.userId = userId])
                     ELSE store
         IN  PutAll(next, userId, Tail(cs))

\* cacheCards: one readwrite transaction. getAllKeys(userId) is requested
\* first, the puts are requested next, and the deletes are requested from the
\* getAllKeys success callback, so they run after the puts, on the keys the
\* owner had before the puts.
CacheCards(store, userId, cs) ==
    LET userCards == Ids(UserIndex(store, userId))
        afterPuts == PutAll(store, userId, cs)
    IN  {r \in afterPuts : r.id \notin userCards}

GetCachedCards(store, userId) == SortCards(UserIndex(store, userId))

PendingUpload(id, cardData, userId, timestamp, retryCount) ==
    [id |-> id, cardData |-> cardData, userId |-> userId,
     timestamp |-> timestamp, retryCount |-> retryCount]

\* addPendingUpload: id is crypto.randomUUID(), timestamp is new Date()
AddPendingUpload(store, id, userId, cardData, now) ==
    store \cup {PendingUpload(id, [cardData EXCEPT !.id = NoId], userId, now, 0)}

RECURSIVE SortByKey(_)
SortByKey(S) ==
    IF S = {} THEN <<>>
    ELSE LET first == CHOOSE p \in S : \A q \in S : p.id <= q.id
         IN  <<first>> \o SortByKey(S \ {first})

\* getPendingUploads(userId?): index.getAll / store.getAll, in key order
GetPendingUploads(store, userId) ==
    IF userId # Undefined THEN SortByKey(UserIndex(store, userId))
    ELSE SortByKey(store)

RemovePendingUpload(store, pendingId) == {p \in store : p.id # pendingId}

\* updateRetryCount writing the record back as it read it
UpdateRetryCountNoBump(store, pendingId) == store

UpdateRetryCount(store, pendingId) ==
    {IF p.id = pendingId THEN [p EXCEPT !.retryCount = @ + 1] ELSE p : p \in store}

CacheCard(store, card) == IF card.id = NoId THEN store ELSE Put(store, card)

DeleteCachedCard(store, cardId) == {r \in store : r.id # cardId}

(* -------------------- StorageService (Firestore) ---------------------- *)
\* timestamp: cardData.timestamp || new Date().toISOString()
TimestampOr(timestamp, now) == IF timestamp # NoTimestamp THEN timestamp ELSE now

\* the card StorageService.saveCard returns
SavedCard(userId, cardData, docId, now) ==
    [cardData EXCEPT !.id = docId, !.userId = userId,
                     !.timestamp = TimestampOr(cardData.timestamp, now)]

\* addDoc: the document is the card without its id, under a generated id
AddDoc(collection, userId, cardData, docId, now) ==
    <<SavedCard(userId, cardData, docId, now)>> \o collection

\* mapFirestoreDoc: a timestamp that is missing or does not parse is replaced
\* by the time of the read
MapFirestoreDoc(doc, now) ==
    [doc EXCEPT !.timestamp =
        IF doc.timestamp = NoTimestamp \/ InvalidDate(doc.timestamp) THEN now
        ELSE doc.timestamp]

\* StorageService.getCards: where userId == userId, orderBy updatedAt desc
StorageGetCards(collection, userId, now) ==
    LET Mine(doc) == doc.userId = userId
        mine == SelectSeq(collection, Mine)
    IN  [i \in DOMAIN mine |-> MapFirestoreDoc(mine[i], now)]

\* deleteDoc(doc(db, COLLECTION_NAME, cardId))
DeleteDoc(collection, cardId) ==
    LET Other(doc) == doc.id # cardId IN SelectSeq(collection, Other)

\* updateDoc(doc(db, COLLECTION_NAME, cardData.id), cleanedData): the fields
\* given replace the document's, userId is the caller's, and updatedAt = now
\* moves the document to the front of the listing
UpdateDoc(collection, userId, cardData) ==
    LET Other(doc) == doc.id # cardData.id
    IN  <<[cardData EXCEPT !.userId = userId]>> \o SelectSeq(collection, Other)

(* ------------------------- duplicate detection ------------------------ *)
Digits == {"0", "1", "2", "3", "4", "5", "6", "7", "8", "9"}

\* phone.replace(/\D/g, '')
DigitsOnly(phone) ==
    LET IsDigit(ch) == ch \in Digits IN SelectSeq(phone, IsDigit)

\* toLowerCase, on the letters the names of the model are written with
LowerChar(ch) ==
    CASE ch = "J" -> "j" [] ch = "A" -> "a" [] ch = "N" -> "n" [] ch = "E" -> "e"
      [] ch = "O" -> "o" [] OTHER -> ch
ToLowerCase(s) == [i \in DOMAIN s |-> LowerChar(s[i])]

\* trim: drop the leading and the trailing white space
RECURSIVE TrimStart(_)
TrimStart(s) ==
    IF s # <<>> /\ Head(s) = " " THEN TrimStart(Tail(s)) ELSE s
RECURSIVE TrimEnd(_)
TrimEnd(s) ==
    IF s # <<>> /\ s[Len(s)] = " " THEN TrimEnd(SubSeq(s, 1, Len(s) - 1)) ELSE s
Trim(s) == TrimEnd(TrimStart(s))

\* existingCard.name && cardData.name &&
\*     existingCard.name.toLowerCase().trim() === cardData.name.toLowerCase().trim()
NameMatch(existingCard, cardData) ==
    /\ existingCard.name # NoString
    /\ cardData.name # NoString
    /\ Trim(ToLowerCase(existingCard.name)) = Trim(ToLowerCase(cardData.name))

\* [card.phone, card.mobile].filter(Boolean)
PhoneNumbers(card) == {n \in {card.phone, card.mobile} : n # NoString}

\* the phone match reading only the phone field of the candidate
PhoneMatchPhoneOnly(existingCard, cardData) ==
    \E phone \in {n \in {cardData.phone} : n # NoString} :
        \E existingPhone \in PhoneNumbers(existingCard) :
            DigitsOnly(phone) = DigitsOnly(existingPhone)

\* phoneNumbers.some(phone => existingPhoneNumbers.some(existingPhone => ...))
PhoneMatch(existingCard, cardData) ==
    \E phone \in PhoneNumbers(cardData) :
        \E existingPhone \in PhoneNumbers(existingCard) :
            DigitsOnly(phone) = DigitsOnly(existingPhone)

\* the filter predicate: nameMatch || phoneMatch
IsDuplicate(existingCard, cardData) ==
    NameMatch(existingCard, cardData) \/ PhoneMatch(existingCard, cardData)

\* allCards.filter(existingCard => ...)
FilterDuplicates(allCards, cardData) ==
    LET Dup(existingCard) == IsDuplicate(existingCard, cardData)
    IN  SelectSeq(allCards, Dup)

\* StorageService.checkForDuplicates: the remote list succeeding (ok) or
\* throwing; its own catch turns the error into an empty result
StorageCheckForDuplicates(collection, userId, cardData, ok, now) ==
    IF ok THEN FilterDuplicates(StorageGetCards(collection, userId, now), cardData)
    ELSE <<>>

\* EnhancedStorageService.checkDuplicatesOffline
CheckDuplicatesOffline(store, userId, cardData) ==
    FilterDuplicates(GetCachedCards(store, userId), cardData)

(* ------------------------------ state --------------------------------- *)
IdleDrain == [pc |-> "idle", queue |-> <<>>, synced |-> {}]

\* no cacheCards transaction in flight, no getCachedCards call waiting
IdleTx ==
    [pc |-> "none", userId |-> Undefined, cs |-> <<>>, requests |-> <<>>,
     keys |-> {}, store |-> {}, before |-> {},
     reader |-> [pc |-> "none", userId |-> Undefined, concurrent |-> FALSE]]

\* what a render of OfflineIndicator closes over: the userId prop and the
\* isOnline and isSyncing state of that render
Closure(userId, isOnline, isSyncing) ==
    [userId |-> userId, isOnline |-> isOnline, isSyncing |-> isSyncing]

\* the component mounted before anybody is signed in: useState(true),
\* useState(false), and the listeners of the first render
MountedIndicator ==
    [userId |-> Undefined, isOnline |-> TRUE, isSyncing |-> FALSE,
     captured |-> Closure(Undefined, TRUE, FALSE),
     \* the syncPendingUploads calls of handleSync that have not returned yet
     inFlight |-> {},
     \* whether the latest handler called syncPendingUploads
     calledSync |-> FALSE]

\* what a facade call returned (result), whether it threw, and the remote
\* calls it made, each with whether it succeeded
Outcome(op, userId, result, threw, calls) ==
    [op |-> op, userId |-> userId, result |-> result, threw |-> threw,
     calls |-> calls]

Init ==
    /\ online = TRUE
    /\ clock = 1
    /\ cards = {}
    /\ pendingUploads = {}
    /\ remote = <<>>
    /\ uuids = 0
    /\ docs = 0
    /\ saves = 0
    /\ drain = [d \in Drainers |-> IdleDrain]
    /\ last = Outcome("none", Undefined, <<>>, FALSE, <<>>)
    /\ tx = IdleTx
    /\ indicator = MountedIndicator
    /\ ghost = <<>>

(* --------------------------- connectivity ------------------------------ *)
\* the browser's online event
GoOnline ==
    /\ ~online
    /\ online' = TRUE
    /\ ghost' = [pid \in DOMAIN ghost |-> [ghost[pid] EXCEPT !.stillOffline = FALSE]]
    /\ UNCHANGED <<tx, indicator,
                   clock, cards, pendingUploads, remote, uuids, docs, saves, drain,
                   last>>

\* the browser's offline event
GoOffline ==
    /\ online
    /\ online' = FALSE
    /\ UNCHANGED <<tx, indicator,
                   clock, cards, pendingUploads, remote, uuids, docs, saves, drain,
                   last, ghost>>

(* ---------------------- EnhancedStorageService ------------------------- *)
\* the id an extraction gives its card: "card-" + Date.now()
ExtractedId(now) == <<"card-", now>>

\* the cards a caller can pass to saveCard: an extracted card carries the id
\* and the time of its extraction, and has no userId unless the caller set it
Inputs(userId) ==
    {Card(ExtractedId(clock), o, n, clock) : o \in {Undefined, userId}, n \in Names}

\* every id handed out so far
IssuedIds == {DocId(n) : n \in 1..docs} \cup {OfflineId(n) : n \in 1..uuids}

\* saveCardOffline; calls are the remote calls saveCard made before it
SaveCardOffline(userId, cardData, calls) ==
    \E pendingId \in (1..MaxUuid) \ DOMAIN ghost :
        LET tempId == OfflineId(uuids + 1)
            offlineCard == [cardData EXCEPT
                               !.id = tempId,
                               !.timestamp = TimestampOr(cardData.timestamp, clock)]
        IN  /\ pendingUploads' =
                   AddPendingUpload(pendingUploads, pendingId, userId, cardData, clock)
            /\ cards' = CacheCard(cards, offlineCard)
            /\ uuids' = uuids + 1
            /\ last' = Outcome("save", userId, <<offlineCard>>, FALSE, calls)
            /\ ghost' = ghost @@ (pendingId :>
                   [tmp |-> tempId, owner |-> userId,
                    fresh |-> cardData.userId = Undefined,
                    stillOffline |-> ~online,
                    made |-> 0, abandoned |-> FALSE, deleted |-> FALSE])
            /\ UNCHANGED <<remote, docs>>

\* saveCard without its catch: the error of the remote create reaches the caller
SaveCardNoFallback(userId, cardData, ok) ==
    /\ saves < MaxSaves
    /\ saves' = saves + 1
    /\ clock' = clock + 1
    /\ IF online
       THEN IF ok
            THEN LET savedCard == SavedCard(userId, cardData, DocId(docs + 1), clock)
                 IN  /\ remote' = AddDoc(remote, userId, cardData, DocId(docs + 1), clock)
                     /\ docs' = docs + 1
                     /\ cards' = CacheCard(cards, savedCard)
                     /\ last' = Outcome("save", userId, <<savedCard>>, FALSE,
                                        <<<<"create", TRUE>>>>)
                     /\ UNCHANGED <<pendingUploads, uuids, ghost>>
            ELSE /\ last' = Outcome("save", userId, <<>>, TRUE, <<<<"create", FALSE>>>>)
                 /\ UNCHANGED <<remote, docs, cards, pendingUploads, uuids, ghost>>
       ELSE SaveCardOffline(userId, cardData, <<>>)
    /\ UNCHANGED <<tx, indicator, online, drain>>

\* saveCard, the remote create succeeding (ok) or throwing
SaveCard(userId, cardData, ok) ==
    /\ saves < MaxSaves
    /\ saves' = saves + 1
    /\ clock' = clock + 1
    /\ IF online /\ ok
       THEN LET savedCard == SavedCard(userId, cardData, DocId(docs + 1), clock)
            IN  /\ remote' = AddDoc(remote, userId, cardData, DocId(docs + 1), clock)
                /\ docs' = docs + 1
                /\ cards' = CacheCard(cards, savedCard)
                /\ last' = Outcome("save", userId, <<savedCard>>, FALSE,
                                   <<<<"create", TRUE>>>>)
                /\ UNCHANGED <<pendingUploads, uuids, ghost>>
       ELSE SaveCardOffline(userId, cardData,
                            IF online THEN <<<<"create", FALSE>>>> ELSE <<>>)
    /\ UNCHANGED <<tx, indicator, online, drain>>

\* getCards without its catch: the error of the remote list reaches the caller
GetCardsNoFallback(userId, ok) ==
    /\ IF online /\ ok
       THEN LET onlineCards == StorageGetCards(remote, userId, clock)
                cached == CacheCards(cards, userId, onlineCards)
                offlineCards == GetCachedCards(cached, userId)
                OfflineOnly(card) ==
                    /\ StartsWithOffline(card.id)
                    /\ card.id \notin Ids(Range(onlineCards))
                offlineOnlyCards == SelectSeq(offlineCards, OfflineOnly)
            IN  /\ cards' = cached
                /\ last' = Outcome("list", userId, onlineCards \o offlineOnlyCards,
                                   FALSE, <<<<"list", TRUE>>>>)
       ELSE IF online
       THEN /\ cards' = cards
            /\ last' = Outcome("list", userId, <<>>, TRUE, <<<<"list", FALSE>>>>)
       ELSE /\ cards' = cards
            /\ last' = Outcome("list", userId, GetCachedCards(cards, userId), FALSE, <<>>)
    /\ UNCHANGED <<tx, indicator,
                   online, clock, pendingUploads, remote, uuids, docs, saves, drain,
                   ghost>>

\* getCards, the remote list succeeding (ok) or throwing
GetCards(userId, ok) ==
    /\ IF online /\ ok
       THEN LET onlineCards == StorageGetCards(remote, userId, clock)
                cached == CacheCards(cards, userId, onlineCards)
                offlineCards == GetCachedCards(cached, userId)
                OfflineOnly(card) ==
                    /\ StartsWithOffline(card.id)
                    /\ card.id \notin Ids(Range(onlineCards))
                offlineOnlyCards == SelectSeq(offlineCards, OfflineOnly)
            IN  /\ cards' = cached
                /\ last' = Outcome("list", userId, onlineCards \o offlineOnlyCards,
                                   FALSE, <<<<"list", TRUE>>>>)
       ELSE /\ cards' = cards
            /\ last' = Outcome("list", userId, GetCachedCards(cards, userId), FALSE,
                               IF online THEN <<<<"list", FALSE>>>> ELSE <<>>)
    /\ UNCHANGED <<tx, indicator,
                   online, clock, pendingUploads, remote, uuids, docs, saves, drain,
                   ghost>>

\* deleteCard without its test of the offline_ prefix: such an id takes the
\* same path as a confirmed one
DeleteCardNoPrefixTest(userId, cardId, ok) ==
    /\ IF online
       THEN IF ok
            THEN /\ remote' = DeleteDoc(remote, cardId)
                 /\ cards' = DeleteCachedCard(cards, cardId)
                 /\ last' = Outcome("delete", userId, <<>>, FALSE,
                                    <<<<"delete", TRUE>>>>)
            ELSE /\ UNCHANGED <<remote, cards>>
                 /\ last' = Outcome("delete", userId, <<>>, TRUE,
                                    <<<<"delete", FALSE>>>>)
       ELSE /\ cards' = DeleteCachedCard(cards, cardId)
            /\ remote' = remote
            /\ last' = Outcome("delete", userId, <<>>, TRUE, <<>>)
    /\ ghost' = [pid \in DOMAIN ghost |->
                    IF ghost[pid].tmp = cardId
                    THEN [ghost[pid] EXCEPT !.deleted = TRUE] ELSE ghost[pid]]
    /\ UNCHANGED <<tx, indicator,
                   online, clock, pendingUploads, uuids, docs, saves, drain>>

\* deleteCard returning normally from its offline branch
DeleteCardOfflineSilent(userId, cardId, ok) ==
    /\ IF StartsWithOffline(cardId)
       THEN /\ cards' = DeleteCachedCard(cards, cardId)
            /\ remote' = remote
            /\ last' = Outcome("delete", userId, <<>>, FALSE, <<>>)
       ELSE IF online
       THEN IF ok
            THEN /\ remote' = DeleteDoc(remote, cardId)
                 /\ cards' = DeleteCachedCard(cards, cardId)
                 /\ last' = Outcome("delete", userId, <<>>, FALSE,
                                    <<<<"delete", TRUE>>>>)
            ELSE /\ UNCHANGED <<remote, cards>>
                 /\ last' = Outcome("delete", userId, <<>>, TRUE,
                                    <<<<"delete", FALSE>>>>)
       ELSE /\ cards' = DeleteCachedCard(cards, cardId)
            /\ remote' = remote
            /\ last' = Outcome("delete", userId, <<>>, FALSE, <<>>)
    /\ ghost' = [pid \in DOMAIN ghost |->
                    IF ghost[pid].tmp = cardId
                    THEN [ghost[pid] EXCEPT !.deleted = TRUE] ELSE ghost[pid]]
    /\ UNCHANGED <<tx, indicator,
                   online, clock, pendingUploads, uuids, docs, saves, drain>>

\* deleteCard whose remote delete fails on a document that does not exist
DeleteCardMissingFails(userId, cardId, ok) ==
    /\ IF StartsWithOffline(cardId)
       THEN /\ cards' = DeleteCachedCard(cards, cardId)
            /\ remote' = remote
            /\ last' = Outcome("delete", userId, <<>>, FALSE, <<>>)
       ELSE IF online
       THEN IF ok /\ cardId \in Ids(Range(remote))
            THEN /\ remote' = DeleteDoc(remote, cardId)
                 /\ cards' = DeleteCachedCard(cards, cardId)
                 /\ last' = Outcome("delete", userId, <<>>, FALSE,
                                    <<<<"delete", TRUE>>>>)
            ELSE /\ UNCHANGED <<remote, cards>>
                 /\ last' = Outcome("delete", userId, <<>>, TRUE,
                                    <<<<"delete", FALSE>>>>)
       ELSE /\ cards' = DeleteCachedCard(cards, cardId)
            /\ remote' = remote
            /\ last' = Outcome("delete", userId, <<>>, TRUE, <<>>)
    /\ ghost' = [pid \in DOMAIN ghost |->
                    IF ghost[pid].tmp = cardId
                    THEN [ghost[pid] EXCEPT !.deleted = TRUE] ELSE ghost[pid]]
    /\ UNCHANGED <<tx, indicator,
                   online, clock, pendingUploads, uuids, docs, saves, drain>>

\* deleteCard, the remote delete succeeding (ok) or throwing
DeleteCard(userId, cardId, ok) ==
    /\ IF StartsWithOffline(cardId)
       THEN /\ cards' = DeleteCachedCard(cards, cardId)
            /\ remote' = remote
            /\ last' = Outcome("delete", userId, <<>>, FALSE, <<>>)
       ELSE IF online
       THEN IF ok
            THEN /\ remote' = DeleteDoc(remote, cardId)
                 /\ cards' = DeleteCachedCard(cards, cardId)
                 /\ last' = Outcome("delete", userId, <<>>, FALSE,
                                    <<<<"delete", TRUE>>>>)
            ELSE /\ UNCHANGED <<remote, cards>>
                 /\ last' = Outcome("delete", userId, <<>>, TRUE,
                                    <<<<"delete", FALSE>>>>)
       ELSE /\ cards' = DeleteCachedCard(cards, cardId)
            /\ remote' = remote
            /\ last' = Outcome("delete", userId, <<>>, TRUE, <<>>)
    /\ ghost' = [pid \in DOMAIN ghost |->
                    IF ghost[pid].tmp = cardId
                    THEN [ghost[pid] EXCEPT !.deleted = TRUE] ELSE ghost[pid]]
    /\ UNCHANGED <<tx, indicator,
                   online, clock, pendingUploads, uuids, docs, saves, drain>>

\* the name an edit form can give a card
EditedNames == {<<"J", "o">>}

\* the records a caller can pass to updateCard: a card it was shown (from the
\* cache or from the remote list), with edited fields
Edits(userId) ==
    {[c EXCEPT !.name = n] :
        c \in {k \in cards \cup Range(remote) : k.userId \in {userId, Undefined}},
        n \in EditedNames}

\* updateCard throwing from its offline branch before it caches the record
UpdateCardOfflineNoCache(userId, cardData, ok) ==
    /\ IF cardData.id # NoId /\ StartsWithOffline(cardData.id)
       THEN /\ cards' = CacheCard(cards, cardData)
            /\ remote' = remote
            /\ last' = Outcome("update", userId, <<>>, FALSE, <<>>)
       ELSE IF online
       THEN IF cardData.id = NoId
            THEN /\ UNCHANGED <<remote, cards>>
                 /\ last' = Outcome("update", userId, <<>>, TRUE, <<>>)
            ELSE IF ok /\ cardData.id \in Ids(Range(remote))
            THEN /\ remote' = UpdateDoc(remote, userId, cardData)
                 /\ cards' = CacheCard(cards, cardData)
                 /\ last' = Outcome("update", userId, <<>>, FALSE,
                                    <<<<"update", TRUE>>>>)
            ELSE /\ UNCHANGED <<remote, cards>>
                 /\ last' = Outcome("update", userId, <<>>, TRUE,
                                    <<<<"update", FALSE>>>>)
       ELSE /\ UNCHANGED <<remote, cards>>
            /\ last' = Outcome("update", userId, <<>>, TRUE, <<>>)
    /\ UNCHANGED <<tx, indicator,
                   online, clock, pendingUploads, uuids, docs, saves, drain, ghost>>

\* updateCard without its test of the offline_ prefix: such a record takes
\* the same path as a confirmed one
UpdateCardNoPrefixTest(userId, cardData, ok) ==
    /\ IF online
       THEN IF cardData.id = NoId
            THEN /\ UNCHANGED <<remote, cards>>
                 /\ last' = Outcome("update", userId, <<>>, TRUE, <<>>)
            ELSE IF ok /\ cardData.id \in Ids(Range(remote))
            THEN /\ remote' = UpdateDoc(remote, userId, cardData)
                 /\ cards' = CacheCard(cards, cardData)
                 /\ last' = Outcome("update", userId, <<>>, FALSE,
                                    <<<<"update", TRUE>>>>)
            ELSE /\ UNCHANGED <<remote, cards>>
                 /\ last' = Outcome("update", userId, <<>>, TRUE,
                                    <<<<"update", FALSE>>>>)
       ELSE /\ cards' = CacheCard(cards, cardData)
            /\ remote' = remote
            /\ last' = Outcome("update", userId, <<>>, TRUE, <<>>)
    /\ UNCHANGED <<tx, indicator,
                   online, clock, pendingUploads, uuids, docs, saves, drain, ghost>>

\* updateCard, the remote update succeeding (ok) or throwing; updateDoc also
\* throws when the document does not exist
UpdateCard(userId, cardData, ok) ==
    /\ IF cardData.id # NoId /\ StartsWithOffline(cardData.id)
       THEN /\ cards' = CacheCard(cards, cardData)
            /\ remote' = remote
            /\ last' = Outcome("update", userId, <<>>, FALSE, <<>>)
       ELSE IF online
       THEN IF cardData.id = NoId
            THEN /\ UNCHANGED <<remote, cards>>
                 /\ last' = Outcome("update", userId, <<>>, TRUE, <<>>)
            ELSE IF ok /\ cardData.id \in Ids(Range(remote))
            THEN /\ remote' = UpdateDoc(remote, userId, cardData)
                 /\ cards' = CacheCard(cards, cardData)
                 /\ last' = Outcome("update", userId, <<>>, FALSE,
                                    <<<<"update", TRUE>>>>)
            ELSE /\ UNCHANGED <<remote, cards>>
                 /\ last' = Outcome("update", userId, <<>>, TRUE,
                                    <<<<"update", FALSE>>>>)
       ELSE /\ cards' = CacheCard(cards, cardData)
            /\ remote' = remote
            /\ last' = Outcome("update", userId, <<>>, TRUE, <<>>)
    /\ UNCHANGED <<tx, indicator,
                   online, clock, pendingUploads, uuids, docs, saves, drain, ghost>>

\* checkForDuplicates, the remote list succeeding (ok) or throwing. The catch
\* of the facade is never entered: StorageService.checkForDuplicates catches
\* the error of the list itself.
CheckForDuplicates(userId, cardData, ok) ==
    /\ last' = IF online
               THEN Outcome("duplicates", userId,
                            StorageCheckForDuplicates(remote, userId, cardData, ok, clock),
                            FALSE, <<<<"list", ok>>>>)
               ELSE Outcome("duplicates", userId,
                            CheckDuplicatesOffline(cards, userId, cardData),
                            FALSE, <<>>)
    /\ UNCHANGED <<tx, indicator,
                   online, clock, cards, pendingUploads, remote, uuids, docs, saves,
                   drain, ghost>>

(* ------------- OfflineStorageService.syncPendingUploads ---------------- *)
\* the call up to the first upload: returns when offline, else reads the
\* whole pendingUploads store
DrainStart(d) ==
    /\ drain[d].pc = "idle"
    /\ IF online
       THEN LET pending == GetPendingUploads(pendingUploads, Undefined)
            IN  drain' = [drain EXCEPT ![d] =
                    [pc |-> IF pending = <<>> THEN "idle" ELSE "run",
                     queue |-> pending, synced |-> {}]]
       ELSE drain' = drain
    /\ UNCHANGED <<tx, indicator,
                   online, clock, cards, pendingUploads, remote, uuids, docs, saves,
                   last, ghost>>

\* an iteration of the for loop without its own try/catch: a create that
\* throws ends the call, the uploads after it are not attempted
DrainStepStopsOnFailure(d, ok) ==
    /\ drain[d].pc = "run"
    /\ LET pending == Head(drain[d].queue)
           rest == IF ok THEN Tail(drain[d].queue) ELSE <<>>
           savedCard == SavedCard(pending.userId, pending.cardData, DocId(docs + 1), clock)
       IN  /\ IF ok
              THEN /\ remote' = AddDoc(remote, pending.userId, pending.cardData,
                                       DocId(docs + 1), clock)
                   /\ docs' = docs + 1
                   /\ cards' = CacheCard(cards, savedCard)
                   /\ pendingUploads' = RemovePendingUpload(pendingUploads, pending.id)
              ELSE UNCHANGED <<remote, docs, cards, pendingUploads>>
           /\ drain' = [drain EXCEPT ![d] =
                  [pc |-> IF rest = <<>> THEN "idle" ELSE "run",
                   queue |-> rest,
                   synced |-> IF ok
                              THEN drain[d].synced \cup {<<pending.id, savedCard.id>>}
                              ELSE drain[d].synced]]
           /\ ghost' = [ghost EXCEPT ![pending.id] =
                  [@ EXCEPT !.made = IF ok THEN @ + 1 ELSE @]]
    /\ UNCHANGED <<tx, indicator, online, clock, uuids, saves, last>>

\* one iteration of the for loop, the remote create succeeding (ok) or throwing;
\* the call returns with the last iteration
DrainStep(d, ok) ==
    /\ drain[d].pc = "run"
    /\ LET pending == Head(drain[d].queue)
           rest == Tail(drain[d].queue)
           savedCard == SavedCard(pending.userId, pending.cardData, DocId(docs + 1), clock)
           bumped == UpdateRetryCount(pendingUploads, pending.id)
           giveUp == pending.retryCount >= MaxRetries
       IN  /\ IF ok
              THEN /\ remote' = AddDoc(remote, pending.userId, pending.cardData,
                                       DocId(docs + 1), clock)
                   /\ docs' = docs + 1
                   /\ cards' = CacheCard(cards, savedCard)
                   /\ pendingUploads' = RemovePendingUpload(pendingUploads, pending.id)
              ELSE /\ pendingUploads' =
                          IF giveUp THEN RemovePendingUpload(bumped, pending.id)
                          ELSE bumped
                   /\ UNCHANGED <<remote, docs, cards>>
           /\ drain' = [drain EXCEPT ![d] =
                  [pc |-> IF rest = <<>> THEN "idle" ELSE "run",
                   queue |-> rest,
                   synced |-> IF ok
                              THEN drain[d].synced \cup {<<pending.id, savedCard.id>>}
                              ELSE drain[d].synced]]
           /\ ghost' = [ghost EXCEPT ![pending.id] =
                  [@ EXCEPT !.made = IF ok THEN @ + 1 ELSE @,
                            !.abandoned = @ \/ (~ok /\ giveUp)]]
    /\ UNCHANGED <<tx, indicator, online, clock, uuids, saves, last>>

(* ------------- the transactions on the 'cards' store ------------------- *)
\* getCards online, step by step. cacheCards opens one readwrite transaction
\* on the 'cards' store and places its requests in it: getAllKeys(userId)
\* first, then one put per card that has an id. IndexedDB executes the
\* requests of a transaction in the order they were placed, on the
\* transaction's own view of the store, and commits them together.
PutRequests(userId, cs) ==
    LET HasId(card) == card.id # NoId
        withId == SelectSeq(cs, HasId)
    IN  [i \in DOMAIN withId |->
            [kind |-> "put", card |-> [withId[i] EXCEPT !.userId = userId]]]

\* userCards.result.forEach(key => store.delete(key))
RECURSIVE DeleteRequests(_)
DeleteRequests(keys) ==
    IF keys = {} THEN <<>>
    ELSE LET first == CHOOSE k \in keys : \A l \in keys \ {k} : KeyLess(k, l)
         IN  <<[kind |-> "delete", key |-> first]>> \o DeleteRequests(keys \ {first})

\* getCards up to the requests of cacheCards, the remote list having succeeded
GetCardsBegin(userId) ==
    /\ online
    /\ tx.pc = "none"
    /\ tx.requests = <<>>
    /\ tx.reader.pc = "none"
    /\ LET onlineCards == StorageGetCards(remote, userId, clock)
       IN  tx' = [tx EXCEPT !.pc = "open", !.userId = userId, !.cs = onlineCards,
                            !.requests = <<[kind |-> "getAllKeys"]>>
                                             \o PutRequests(userId, onlineCards),
                            !.keys = {}, !.store = cards, !.before = cards]
    /\ UNCHANGED <<indicator, online, clock, cards, pendingUploads, remote, uuids,
                   docs, saves, drain, last, ghost>>

\* the store after a put or a delete request
Requested(store, request) ==
    CASE request.kind = "put" -> Put(store, request.card)
      [] request.kind = "delete" -> DeleteCachedCard(store, request.key)
      [] OTHER -> store

\* every request of cacheCards in a transaction of its own
CacheCardsRequestOwnTransaction ==
    /\ tx.requests # <<>>
    /\ LET request == Head(tx.requests)
           keys == IF request.kind = "getAllKeys"
                   THEN Ids(UserIndex(tx.store, tx.userId)) ELSE tx.keys
           store == Requested(tx.store, request)
           requests == Tail(tx.requests) \o
                           (IF request.kind = "getAllKeys" THEN DeleteRequests(keys)
                            ELSE <<>>)
       IN  /\ tx' = [tx EXCEPT !.requests = requests, !.keys = keys, !.store = store,
                               !.pc = IF requests = <<>> THEN "complete" ELSE "none"]
           /\ cards' = store
    /\ UNCHANGED <<indicator, online, clock, pendingUploads, remote, uuids, docs,
                   saves, drain, last, ghost>>

\* the next request of the cacheCards transaction is executed; the success
\* callback of getAllKeys places one delete per key found, behind the puts;
\* with the last request done the transaction commits (oncomplete)
CacheCardsRequest ==
    /\ tx.requests # <<>>
    /\ LET request == Head(tx.requests)
           keys == IF request.kind = "getAllKeys"
                   THEN Ids(UserIndex(tx.store, tx.userId)) ELSE tx.keys
           store == Requested(tx.store, request)
           requests == Tail(tx.requests) \o
                           (IF request.kind = "getAllKeys" THEN DeleteRequests(keys)
                            ELSE <<>>)
       IN  /\ tx' = [tx EXCEPT !.requests = requests, !.keys = keys, !.store = store,
                               !.pc = IF requests = <<>> THEN "complete" ELSE "open"]
           /\ cards' = IF requests = <<>> THEN store ELSE cards
    /\ UNCHANGED <<indicator, online, clock, pendingUploads, remote, uuids, docs,
                   saves, drain, last, ghost>>

\* getCards after cacheCards has resolved: the merge and the return
GetCardsEnd ==
    /\ tx.pc = "complete"
    /\ LET offlineCards == GetCachedCards(cards, tx.userId)
           OfflineOnly(card) ==
               /\ StartsWithOffline(card.id)
               /\ card.id \notin Ids(Range(tx.cs))
           offlineOnlyCards == SelectSeq(offlineCards, OfflineOnly)
       IN  last' = Outcome("list", tx.userId, tx.cs \o offlineOnlyCards, FALSE,
                           <<<<"list", TRUE>>>>)
    /\ tx' = [tx EXCEPT !.pc = "none"]
    /\ UNCHANGED <<indicator, online, clock, cards, pendingUploads, remote, uuids,
                   docs, saves, drain, ghost>>

\* getCachedCards is called and opens its readonly transaction; concurrent
\* records whether the transaction of a cacheCards is open at that time
GetCachedCardsBegin(userId) ==
    /\ tx.reader.pc = "none"
    /\ tx' = [tx EXCEPT !.reader = [pc |-> "waiting", userId |-> userId,
                                    concurrent |-> tx.pc = "open"]]
    /\ UNCHANGED <<indicator, online, clock, cards, pendingUploads, remote, uuids,
                   docs, saves, drain, last, ghost>>

\* the readonly transaction runs, which IndexedDB lets it do once no readwrite
\* transaction on the same store opened before it is in progress, and
\* getCachedCards resolves
GetCachedCardsEnd ==
    /\ tx.reader.pc = "waiting"
    /\ tx.pc # "open"
    /\ last' = Outcome("cached", tx.reader.userId,
                       GetCachedCards(cards, tx.reader.userId), FALSE, <<>>)
    /\ tx' = [tx EXCEPT !.reader.pc = "none"]
    /\ UNCHANGED <<indicator, online, clock, cards, pendingUploads, remote, uuids,
                   docs, saves, drain, ghost>>

(* ------------------------- OfflineIndicator ---------------------------- *)
\* the userId prop changes (sign in, sign out): the component renders, the
\* effect with dependency [userId] removes its listeners and registers new
\* ones, which close over that render, and sets isOnline to navigator.onLine
SetUser(userId) ==
    /\ indicator.userId # userId
    /\ indicator' = [indicator EXCEPT
           !.userId = userId,
           !.captured = Closure(userId, indicator.isOnline, indicator.isSyncing),
           !.isOnline = online,
           !.calledSync = FALSE]
    /\ UNCHANGED <<tx, online, clock, cards, pendingUploads, remote, uuids, docs,
                   saves, drain, last, ghost>>

\* the guard of handleSync, on the values the function closed over
SyncGuard(closure) ==
    closure.userId # Undefined /\ closure.isOnline /\ ~closure.isSyncing

\* handleSync called from a function that closed over closure, navigator.onLine
\* being navOnline: past its guard it sets isSyncing and calls
\* syncPendingUploads, which reads the queue when online; component is the
\* state the caller leaves
HandleSync(closure, navOnline, component) ==
    IF SyncGuard(closure)
    THEN \E d \in Drainers \ indicator.inFlight :
            /\ drain[d].pc = "idle"
            /\ drain' = [drain EXCEPT ![d] =
                   IF navOnline
                   THEN LET pending == GetPendingUploads(pendingUploads, Undefined)
                        IN  [pc |-> IF pending = <<>> THEN "idle" ELSE "run",
                             queue |-> pending, synced |-> {}]
                   ELSE drain[d]]
            /\ indicator' = [component EXCEPT !.isSyncing = TRUE,
                                              !.inFlight = @ \cup {d},
                                              !.calledSync = TRUE]
    ELSE /\ drain' = drain
         /\ indicator' = [component EXCEPT !.calledSync = FALSE]

\* the online event: handleOnline of the listeners registered last
HandleOnline ==
    /\ ~online
    /\ online' = TRUE
    /\ ghost' = [pid \in DOMAIN ghost |-> [ghost[pid] EXCEPT !.stillOffline = FALSE]]
    /\ IF indicator.captured.userId # Undefined
       THEN HandleSync(indicator.captured, TRUE, [indicator EXCEPT !.isOnline = TRUE])
       ELSE /\ drain' = drain
            /\ indicator' = [indicator EXCEPT !.isOnline = TRUE, !.calledSync = FALSE]
    /\ UNCHANGED <<tx, clock, cards, pendingUploads, remote, uuids, docs, saves, last>>

\* the offline event: handleOffline
HandleOffline ==
    /\ online
    /\ online' = FALSE
    /\ indicator' = [indicator EXCEPT !.isOnline = FALSE, !.calledSync = FALSE]
    /\ UNCHANGED <<tx, clock, cards, pendingUploads, remote, uuids, docs, saves,
                   drain, last, ghost>>

\* the BACKGROUND_SYNC message of the service worker: handleMessage of the
\* listeners registered last
HandleMessage ==
    /\ IF indicator.captured.userId # Undefined
       THEN HandleSync(indicator.captured, online, indicator)
       ELSE /\ drain' = drain
            /\ indicator' = [indicator EXCEPT !.calledSync = FALSE]
    /\ UNCHANGED <<tx, online, clock, cards, pendingUploads, remote, uuids, docs,
                   saves, last, ghost>>

\* the Sync button, shown while isOnline and enabled while not isSyncing:
\* handleSync of the current render
ClickSync ==
    /\ indicator.userId # Undefined
    /\ indicator.isOnline
    /\ ~indicator.isSyncing
    /\ HandleSync(Closure(indicator.userId, indicator.isOnline, indicator.isSyncing),
                  online, indicator)
    /\ UNCHANGED <<tx, online, clock, cards, pendingUploads, remote, uuids, docs,
                   saves, last, ghost>>

\* a handleSync whose syncPendingUploads call has returned: its finally block
\* sets isSyncing to false
SyncSettled(d) ==
    /\ d \in indicator.inFlight
    /\ drain[d].pc = "idle"
    /\ indicator' = [indicator EXCEPT !.isSyncing = FALSE, !.inFlight = @ \ {d}]
    /\ UNCHANGED <<tx, online, clock, cards, pendingUploads, remote, uuids, docs,
                   saves, drain, last, ghost>>

(* ------------------ failures of the local store ----------------------- *)
\* Every OfflineStorageService operation rejects when its IndexedDB request or
\* transaction fails. The actions below are saveCard, getCards and the loop
\* body of syncPendingUploads again, each local store operation they call
\* succeeding or rejecting; a rejected operation leaves its store unchanged.

\* saveCardOffline, addPendingUpload rejecting (queueFails) and
\* cacheCard(offlineCard) rejecting (cacheOfflineFails); made says whether
\* saveCard has created the card remotely before falling back
SaveCardOfflineLocal(userId, cardData, calls, made, queueFails, cacheOfflineFails) ==
    LET tempId == OfflineId(uuids + 1)
        offlineCard == [cardData EXCEPT
                           !.id = tempId,
                           !.timestamp = TimestampOr(cardData.timestamp, clock)]
    IN  /\ uuids' = uuids + 1
        /\ IF queueFails
           THEN /\ last' = Outcome("save", userId, <<>>, TRUE, calls)
                /\ UNCHANGED <<pendingUploads, cards, ghost>>
           ELSE \E pendingId \in (1..MaxUuid) \ DOMAIN ghost :
                   /\ pendingUploads' = AddPendingUpload(pendingUploads, pendingId,
                                                         userId, cardData, clock)
                   /\ cards' = IF cacheOfflineFails THEN cards
                               ELSE CacheCard(cards, offlineCard)
                   /\ last' = IF cacheOfflineFails
                              THEN Outcome("save", userId, <<>>, TRUE, calls)
                              ELSE Outcome("save", userId, <<offlineCard>>, FALSE, calls)
                   /\ ghost' = ghost @@ (pendingId :>
                          [tmp |-> tempId, owner |-> userId,
                           fresh |-> cardData.userId = Undefined,
                           stillOffline |-> ~online,
                           made |-> made, abandoned |-> FALSE, deleted |-> FALSE])

\* saveCard, the remote create succeeding (ok) or throwing, and
\* cacheCard(savedCard) rejecting (cacheFails): the rejection is thrown inside
\* the try block, so the catch takes it for a failed online save
SaveCardLocal(userId, cardData, ok, cacheFails, queueFails, cacheOfflineFails) ==
    /\ saves < MaxSaves
    /\ saves' = saves + 1
    /\ clock' = clock + 1
    /\ IF online /\ ok
       THEN LET savedCard == SavedCard(userId, cardData, DocId(docs + 1), clock)
            IN  /\ remote' = AddDoc(remote, userId, cardData, DocId(docs + 1), clock)
                /\ docs' = docs + 1
                /\ IF cacheFails
                   THEN SaveCardOfflineLocal(userId, cardData, <<<<"create", TRUE>>>>, 1,
                                             queueFails, cacheOfflineFails)
                   ELSE /\ cards' = CacheCard(cards, savedCard)
                        /\ last' = Outcome("save", userId, <<savedCard>>, FALSE,
                                           <<<<"create", TRUE>>>>)
                        /\ UNCHANGED <<pendingUploads, uuids, ghost>>
       ELSE /\ SaveCardOfflineLocal(userId, cardData,
                                    IF online THEN <<<<"create", FALSE>>>> ELSE <<>>,
                                    0, queueFails, cacheOfflineFails)
            /\ UNCHANGED <<remote, docs>>
    /\ UNCHANGED <<tx, indicator, online, drain>>

\* getCards, the remote list succeeding (ok) or throwing, cacheCards rejecting
\* (cacheAllFails), the getCachedCards of the try block rejecting (readFails)
\* and the getCachedCards of the catch or of the offline branch rejecting
\* (fallbackReadFails)
GetCardsLocal(userId, ok, cacheAllFails, readFails, fallbackReadFails) ==
    /\ IF online /\ ok /\ ~cacheAllFails /\ ~readFails
       THEN LET onlineCards == StorageGetCards(remote, userId, clock)
                cached == CacheCards(cards, userId, onlineCards)
                offlineCards == GetCachedCards(cached, userId)
                OfflineOnly(card) ==
                    /\ StartsWithOffline(card.id)
                    /\ card.id \notin Ids(Range(onlineCards))
                offlineOnlyCards == SelectSeq(offlineCards, OfflineOnly)
            IN  /\ cards' = cached
                /\ last' = Outcome("list", userId, onlineCards \o offlineOnlyCards,
                                   FALSE, <<<<"list", TRUE>>>>)
       ELSE LET onlineCards == StorageGetCards(remote, userId, clock)
                left == IF online /\ ok /\ ~cacheAllFails
                        THEN CacheCards(cards, userId, onlineCards)
                        ELSE cards
                calls == IF online THEN <<<<"list", ok>>>> ELSE <<>>
            IN  /\ cards' = left
                /\ last' = IF fallbackReadFails
                           THEN Outcome("list", userId, <<>>, TRUE, calls)
                           ELSE Outcome("list", userId, GetCachedCards(left, userId),
                                        FALSE, calls)
    /\ UNCHANGED <<tx, indicator, online, clock, pendingUploads, remote, uuids, docs,
                   saves, drain, ghost>>

\* one iteration of the for loop, the remote create succeeding (ok) or
\* throwing, and cacheCard (cacheFails), removePendingUpload (removeFails) and
\* updateRetryCount (retryFails) rejecting. A rejection in the try block is
\* caught like a failed create; a rejection in the catch block leaves the loop
\* and ends the call in the outer catch.
DrainStepLocal(d, ok, cacheFails, removeFails, retryFails) ==
    /\ drain[d].pc = "run"
    /\ LET pending == Head(drain[d].queue)
           savedCard == SavedCard(pending.userId, pending.cardData, DocId(docs + 1), clock)
           synced == ok /\ ~cacheFails /\ ~removeFails
           bumped == UpdateRetryCount(pendingUploads, pending.id)
           giveUp == pending.retryCount >= MaxRetries
           aborted == ~synced /\ (retryFails \/ (giveUp /\ removeFails))
           rest == IF aborted THEN <<>> ELSE Tail(drain[d].queue)
       IN  /\ IF ok
              THEN /\ remote' = AddDoc(remote, pending.userId, pending.cardData,
                                       DocId(docs + 1), clock)
                   /\ docs' = docs + 1
                   /\ cards' = IF cacheFails THEN cards ELSE CacheCard(cards, savedCard)
              ELSE UNCHANGED <<remote, docs, cards>>
           /\ pendingUploads' =
                  IF synced THEN RemovePendingUpload(pendingUploads, pending.id)
                  ELSE IF retryFails THEN pendingUploads
                  ELSE IF giveUp /\ ~removeFails
                  THEN RemovePendingUpload(bumped, pending.id)
                  ELSE bumped
           /\ drain' = [drain EXCEPT ![d] =
                  [pc |-> IF rest = <<>> THEN "idle" ELSE "run",
                   queue |-> rest,
                   synced |-> IF synced
                              THEN drain[d].synced \cup {<<pending.id, savedCard.id>>}
                              ELSE drain[d].synced]]
           /\ ghost' = [ghost EXCEPT ![pending.id] =
                  [@ EXCEPT !.made = IF ok THEN @ + 1 ELSE @,
                            !.abandoned = @ \/ (/\ ~synced /\ ~retryFails
                                                /\ giveUp /\ ~removeFails)]]
    /\ UNCHANGED <<tx, indicator, online, clock, uuids, saves, last>>

(* --------------------------- specifications ---------------------------- *)
\* the facade calls and the connectivity events
\* the outcomes of a remote call: it is only made on the path `called`
RemoteOutcomes(called) == IF called THEN BOOLEAN ELSE {TRUE}

FacadeNext ==
    \/ GoOnline
    \/ GoOffline
    \/ \E u \in Users, ok \in RemoteOutcomes(online) :
          \E c \in Inputs(u) : SaveCard(u, c, ok)
    \/ \E u \in Users, ok \in RemoteOutcomes(online) : GetCards(u, ok)
    \/ \E u \in Users, id \in IssuedIds :
          \E ok \in RemoteOutcomes(online /\ ~StartsWithOffline(id)) :
              DeleteCard(u, id, ok)

\* the facade alone: no drain runs
FacadeSpec == Init /\ [][FacadeNext]_vars

\* the facade and the drains the offline indicator starts, one at a time
\* (its isSyncing guard)
Next ==
    \/ FacadeNext
    \/ DrainStart("indicator")
    \/ \E ok \in BOOLEAN : DrainStep("indicator", ok)

Spec == Init /\ [][Next]_vars

\* the user signed in on the device
SignedIn == "u1"

\* the facade calls of the user signed in, updateCard included
EditNext ==
    \/ GoOnline
    \/ GoOffline
    \/ \E ok \in RemoteOutcomes(online) :
          \E c \in Inputs(SignedIn) : SaveCard(SignedIn, c, ok)
    \/ \E ok \in RemoteOutcomes(online) : GetCards(SignedIn, ok)
    \/ \E id \in IssuedIds :
          \E ok \in RemoteOutcomes(online /\ ~StartsWithOffline(id)) :
              DeleteCard(SignedIn, id, ok)
    \/ \E c \in Edits(SignedIn) :
          \E ok \in RemoteOutcomes(online /\ ~StartsWithOffline(c.id)) :
              UpdateCard(SignedIn, c, ok)

EditSpec == Init /\ [][EditNext]_vars

\* the calls that create, update or delete remotely, made for the user signed
\* in: the facade's saveCard, deleteCard and updateCard, and the drains the
\* offline indicator starts
RemoteNext ==
    \/ GoOnline
    \/ GoOffline
    \/ \E ok \in RemoteOutcomes(online) :
          \E c \in Inputs(SignedIn) : SaveCard(SignedIn, c, ok)
    \/ \E id \in IssuedIds :
          \E ok \in RemoteOutcomes(online /\ ~StartsWithOffline(id)) :
              DeleteCard(SignedIn, id, ok)
    \/ \E c \in Edits(SignedIn) :
          \E ok \in RemoteOutcomes(online /\ ~StartsWithOffline(c.id)) :
              UpdateCard(SignedIn, c, ok)
    \/ DrainStart("indicator")
    \/ \E ok \in BOOLEAN : DrainStep("indicator", ok)

RemoteSpec == Init /\ [][RemoteNext]_vars

\* names and phone numbers of the cards the duplicate check is run on
ContactNames == {NoString, <<"J", "a", "n", "e">>, <<" ", "j", "A", "N", "E", " ">>}
\* "+1 (555) 123-4567"
PhoneIntl ==
    <<"+", "1", " ", "(", "5", "5", "5", ")", " ", "1", "2", "3", "-", "4", "5", "6", "7">>
\* "555.123.4567"
PhoneDotted == <<"5", "5", "5", ".", "1", "2", "3", ".", "4", "5", "6", "7">>
\* "5551234567"
PhonePlain == <<"5", "5", "5", "1", "2", "3", "4", "5", "6", "7">>
\* "5559999999"
PhoneOther == <<"5", "5", "5", "9", "9", "9", "9", "9", "9", "9">>
\* "ext." and "n/a": what a form or an extraction leaves in a phone field
\* when there is no number
PhoneExt == <<"e", "x", "t", ".">>
PhoneNA == <<"n", "/", "a">>
ContactPhones == {NoString, PhoneIntl, PhoneDotted, PhonePlain, PhoneOther, PhoneExt}
ContactMobiles == {NoString, PhoneDotted, PhoneNA}

\* an extracted card with a name and phone numbers
Contacts ==
    {[Card(ExtractedId(1), Undefined, n, 1) EXCEPT !.phone = p, !.mobile = m] :
        n \in ContactNames, p \in ContactPhones, m \in ContactMobiles}

\* the state after the first user has saved one contact online: the contact
\* is in the remote collection and in the cache
DupInit ==
    \E contact \in Contacts :
        LET savedCard == SavedCard("u1", contact, DocId(1), 1)
        IN  /\ online = TRUE
            /\ clock = 2
            /\ cards = CacheCard({}, savedCard)
            /\ pendingUploads = {}
            /\ remote = AddDoc(<<>>, "u1", contact, DocId(1), 1)
            /\ uuids = 0
            /\ docs = 1
            /\ saves = 1
            /\ drain = [d \in Drainers |-> IdleDrain]
            /\ last = Outcome("save", "u1", <<savedCard>>, FALSE, <<<<"create", TRUE>>>>)
            /\ tx = IdleTx
            /\ indicator = MountedIndicator
            /\ ghost = <<>>

\* the duplicate checks of the next cards the user signed in scans
DupNext ==
    \/ GoOnline
    \/ GoOffline
    \/ \E ok \in RemoteOutcomes(online) :
          \E c \in Contacts : CheckForDuplicates(SignedIn, c, ok)

DupSpec == DupInit /\ [][DupNext]_vars

\* the cards a duplicate check compares the candidate with: the remote list
\* of the owner when online, the owner's cached cards when offline
Corpus(userId) ==
    IF online THEN Range(StorageGetCards(remote, userId, clock))
    ELSE Range(GetCachedCards(cards, userId))

\* the saves and the drains of both callers of syncPendingUploads: the
\* service itself keeps no running flag, so a drain of one caller starts
\* while a drain of the other is between two uploads
SyncNext ==
    \/ GoOnline
    \/ GoOffline
    \/ \E u \in Users, ok \in RemoteOutcomes(online) :
          \E c \in Inputs(u) : SaveCard(u, c, ok)
    \/ \E d \in Drainers : DrainStart(d)
    \/ \E d \in Drainers, ok \in BOOLEAN : DrainStep(d, ok)

SyncSpec == Init /\ [][SyncNext]_vars

\* the saves of the user signed in and the drains the offline indicator
\* starts: the life of the queue of pending uploads
QueueNext ==
    \/ GoOnline
    \/ GoOffline
    \/ \E ok \in RemoteOutcomes(online) :
          \E c \in Inputs(SignedIn) : SaveCard(SignedIn, c, ok)
    \/ DrainStart("indicator")
    \/ \E ok \in BOOLEAN : DrainStep("indicator", ok)

QueueSpec == Init /\ [][QueueNext]_vars

\* the cards a caller can pass to saveCard, with the timestamps a card can
\* carry: the time of its extraction, none, or a string that does not parse
StampedInputs ==
    {Card(ExtractedId(clock), Undefined, n, t) :
        n \in Names, t \in {clock, NoTimestamp, BadTimestamp}}

\* the saves and the lists of the user signed in, over those cards
StampNext ==
    \/ GoOnline
    \/ GoOffline
    \/ \E ok \in RemoteOutcomes(online) :
          \E c \in StampedInputs : SaveCard(SignedIn, c, ok)
    \/ \E ok \in RemoteOutcomes(online) : GetCards(SignedIn, ok)

StampSpec == Init /\ [][StampNext]_vars

\* the same with the scheduling the drains have: a syncPendingUploads call in
\* flight goes on to its next upload (each await settles), and drains keep
\* being started by the offline indicator while the device is online (the
\* online event, the service worker message, the Sync button)
QueueLiveSpec ==
    /\ QueueSpec
    /\ WF_vars(\E ok \in BOOLEAN : DrainStep("indicator", ok))
    /\ SF_vars(DrainStart("indicator"))

\* the saves of the user signed in, made while no transaction is in progress,
\* the online lists step by step, and getCachedCards calls beside them
TransactionNext ==
    \/ GoOnline
    \/ GoOffline
    \/ \E ok \in RemoteOutcomes(online) :
          \E c \in Inputs(SignedIn) :
              /\ tx.pc = "none" /\ tx.requests = <<>> /\ tx.reader.pc = "none"
              /\ SaveCard(SignedIn, c, ok)
    \/ GetCardsBegin(SignedIn)
    \/ CacheCardsRequest
    \/ GetCardsEnd
    \/ GetCachedCardsBegin(SignedIn)
    \/ GetCachedCardsEnd

TransactionSpec == Init /\ [][TransactionNext]_vars

\* the offline indicator mounted in the page: sign in and sign out, the
\* connectivity events, the service worker message, the Sync button, the
\* saves of the user signed in (of extracted cards, which carry no userId)
\* and the drains handleSync starts
IndicatorNext ==
    \/ \E u \in {SignedIn, Undefined} : SetUser(u)
    \/ HandleOnline
    \/ HandleOffline
    \/ HandleMessage
    \/ ClickSync
    \/ \E ok \in RemoteOutcomes(online) :
          \E c \in {k \in Inputs(SignedIn) : k.userId = Undefined} :
              indicator.userId = SignedIn /\ SaveCard(SignedIn, c, ok)
    \/ \E d \in Drainers, ok \in BOOLEAN : DrainStep(d, ok)
    \/ \E d \in Drainers : SyncSettled(d)

IndicatorSpec == Init /\ [][IndicatorNext]_vars

\* the saves and the lists of the user signed in, with a local store whose
\* operations can fail
FaultNext ==
    \/ GoOnline
    \/ GoOffline
    \/ \E ok \in RemoteOutcomes(online) :
          \E cacheFails, queueFails, cacheOfflineFails \in BOOLEAN :
              \E c \in Inputs(SignedIn) :
                  SaveCardLocal(SignedIn, c, ok, cacheFails, queueFails,
                                cacheOfflineFails)
    \/ \E ok \in RemoteOutcomes(online) :
          \E cacheAllFails, readFails, fallbackReadFails \in BOOLEAN :
              GetCardsLocal(SignedIn, ok, cacheAllFails, readFails, fallbackReadFails)

FaultSpec == Init /\ [][FaultNext]_vars

\* the saves of the user signed in and the drains of the offline indicator,
\* with a local store whose operations can fail
QueueFaultNext ==
    \/ GoOnline
    \/ GoOffline
    \/ \E ok \in {o \in RemoteOutcomes(online) : (online /\ o) => docs < MaxDocs} :
          \E cacheFails, queueFails, cacheOfflineFails \in BOOLEAN :
              \E c \in Inputs(SignedIn) :
                  SaveCardLocal(SignedIn, c, ok, cacheFails, queueFails,
                                cacheOfflineFails)
    \/ DrainStart("indicator")
    \/ \E ok \in {o \in BOOLEAN : o => docs < MaxDocs} :
          \E cacheFails, retryFails \in BOOLEAN :
              \E removeFails \in {f \in BOOLEAN : f => ok} :
                  DrainStepLocal("indicator", ok, cacheFails, removeFails, retryFails)

QueueFaultSpec == Init /\ [][QueueFaultNext]_vars

(* ------------------------------ claims --------------------------------- *)
\* the effects of the offline path of saveCard(userId, cardData) on a step:
\* an offline_ record is returned, exactly one PendingUpload is added, for the
\* owner, never tried, carrying the card passed and no id, and the store of
\* cached cards holds the returned record
OfflineSaved(userId, cardData) ==
    /\ last'.op = "save" /\ ~last'.threw /\ Len(last'.result) = 1
    /\ StartsWithOffline(last'.result[1].id)
    /\ \E p \in pendingUploads' \ pendingUploads :
          /\ pendingUploads' = pendingUploads \cup {p}
          /\ p.userId = userId
          /\ p.retryCount = 0
          /\ p.cardData.id = NoId
          /\ p.cardData = [cardData EXCEPT !.id = NoId]
    /\ \E k \in cards' : k.id = last'.result[1].id /\ k = last'.result[1]
    /\ remote' = remote

\* C1: saveCard called offline makes no remote call and returns a record
\* whose id starts with offline_; the queue gains exactly one PendingUpload of
\* the owner (retryCount 0, the card passed without id) and the cache holds
\* the returned record.
C1_OfflineSaveQueuesAndCaches ==
    [][\A u \in Users : \A c \in Inputs(u) :
          (~online /\ SaveCard(u, c, TRUE))
              => (OfflineSaved(u, c) /\ last'.calls = <<>>)]_vars

C1_Witness ==
    /\ ~online
    /\ last.op = "save" /\ last.calls = <<>>
    /\ StartsWithOffline(last.result[1].id)
    /\ last.result[1] \in cards
    /\ \E p \in pendingUploads : p.userId = last.userId /\ p.retryCount = 0

\* C2: after an offline save of a card without userId, every getCards of the
\* owner made while the device is still offline returns the saved record.
C2_OfflineSaveIsListedOffline ==
    [][\A u \in Users :
          (~online /\ GetCards(u, TRUE))
              => \A pid \in DOMAIN ghost :
                    (/\ ghost[pid].owner = u
                     /\ ghost[pid].fresh
                     /\ ghost[pid].stillOffline
                     /\ ~ghost[pid].deleted)
                        => ghost[pid].tmp \in Ids(Range(last'.result))]_vars

\* C3: saveCard called online with the remote create throwing does not throw:
\* it has the effects of the offline path.
C3_FailedOnlineSaveFallsBack ==
    [][\A u \in Users : \A c \in Inputs(u) :
          (online /\ SaveCard(u, c, FALSE))
              => (OfflineSaved(u, c) /\ last'.calls = <<<<"create", FALSE>>>>)]_vars

C3_Witness ==
    /\ last.op = "save" /\ last.calls = <<<<"create", FALSE>>>>
    /\ ~last.threw
    /\ StartsWithOffline(last.result[1].id)
    /\ last.result[1] \in cards
    /\ \E p \in pendingUploads : p.userId = last.userId /\ p.retryCount = 0

\* C4: getCards called online with the remote list succeeding returns every
\* remote record of the owner and every record the owner saved offline that is
\* still cached and not yet synced.
C4_OnlineListKeepsUnsynced ==
    [][\A u \in Users :
          (online /\ GetCards(u, TRUE))
              => /\ Ids(Range(StorageGetCards(remote, u, clock)))
                        \subseteq Ids(Range(last'.result))
                 /\ \A pid \in DOMAIN ghost :
                       (/\ ghost[pid].owner = u
                        /\ pid \in Ids(pendingUploads)
                        /\ ghost[pid].tmp \in Ids(cards))
                           => ghost[pid].tmp \in Ids(Range(last'.result))]_vars

\* C5: getCards never throws on a remote failure: offline, or online with the
\* remote list throwing, it returns what getCachedCards returns.
C5_ListFallsBackToCache ==
    [][\A u \in Users, ok \in BOOLEAN :
          (GetCards(u, ok) /\ ~(online /\ ok))
              => /\ last'.op = "list" /\ ~last'.threw
                 /\ last'.result = GetCachedCards(cards', u)
                 /\ cards' = cards]_vars

C5_Witness ==
    /\ last.op = "list" /\ last.calls = <<<<"list", FALSE>>>>
    /\ ~last.threw
    /\ last.result = GetCachedCards(cards, last.userId)
    /\ \E k \in Range(last.result) : ~StartsWithOffline(k.id)

\* C6: after cacheCards(userId, records), getCachedCards(userId) returns
\* exactly the records given that have an id, and the cached cards of the
\* other owners are unchanged. cacheCards runs in getCards, on the remote list.
C6_CacheAllReplaces ==
    [][\A u \in Users :
          (online /\ GetCards(u, TRUE))
              => LET given == Range(StorageGetCards(remote, u, clock))
                 IN  /\ Range(GetCachedCards(cards', u)) =
                            {[r EXCEPT !.userId = u] : r \in {g \in given : g.id # NoId}}
                     /\ \A v \in Users \ {u} :
                            UserIndex(cards', v) = UserIndex(cards, v)]_vars

\* C7: when a drain has created a pending upload remotely, then as the drain
\* returns the upload is out of the queue, the confirmed record is cached, and
\* the record saveCard cached under the offline_ id is no longer cached.
C7_SyncReplacesOfflineRecord ==
    [][\A ok \in BOOLEAN :
          (DrainStep("indicator", ok) /\ drain'["indicator"].pc = "idle")
              => \A s \in drain'["indicator"].synced :
                    /\ s[1] \notin Ids(pendingUploads')
                    /\ s[2] \in Ids(cards')
                    /\ ghost[s[1]].tmp \notin Ids(cards')]_vars

\* C8: a pending upload whose create has failed MaxRetries times is out of
\* the queue when that drain step ends, and no create is attempted for an
\* upload that has already failed MaxRetries times.
C8_AtMostThreeAttempts ==
    [][\A ok \in BOOLEAN :
          DrainStep("indicator", ok)
              => LET pending == Head(drain["indicator"].queue)
                 IN  /\ pending.retryCount < MaxRetries
                     /\ (~ok /\ pending.retryCount + 1 >= MaxRetries)
                            => pending.id \notin Ids(pendingUploads')]_vars

\* C9: once a pending upload is abandoned, getCachedCards of its owner returns
\* the record cached under its offline_ id, until deleteCard is called on it.
C9_AbandonedStaysCached ==
    \A pid \in DOMAIN ghost :
        (ghost[pid].abandoned /\ ~ghost[pid].deleted)
            => ghost[pid].tmp \in Ids(Range(GetCachedCards(cards, ghost[pid].owner)))

\* C10: a drain sends the pending uploads of an owner in the order they were
\* queued: the upload a step sends was queued no later than the uploads of
\* that owner the drain has yet to send.
C10_DrainIsFifo ==
    [][\A ok \in BOOLEAN :
          DrainStep("indicator", ok)
              => LET pending == Head(drain["indicator"].queue)
                 IN  \A later \in Range(Tail(drain["indicator"].queue)) :
                        later.userId = pending.userId
                            => pending.timestamp <= later.timestamp]_vars

\* C11: whatever drains are in flight together, each pending upload is created
\* remotely at most once.
C11_NoDoubleUpload ==
    \A pid \in DOMAIN ghost : ghost[pid].made <= 1

\* C12: deleteCard on an id that starts with offline_ removes the record from
\* the cache, makes no remote call and does not throw, online or offline.
C12_DeleteOfflineIdIsLocal ==
    [][\A u \in Users : \A id \in IssuedIds :
          (StartsWithOffline(id) /\ DeleteCard(u, id, TRUE))
              => /\ last'.op = "delete" /\ ~last'.threw
                 /\ last'.calls = <<>>
                 /\ cards' = {r \in cards : r.id # id}
                 /\ remote' = remote]_vars

C12_Witness ==
    /\ online
    /\ last.op = "delete" /\ ~last.threw /\ last.calls = <<>>
    /\ \E pid \in DOMAIN ghost :
          ghost[pid].deleted /\ ghost[pid].tmp \notin Ids(cards)

\* C13: deleteCard on a confirmed id called offline removes the record from
\* the cache and throws; it makes no remote call and the remote collection,
\* the record included, is as before.
C13_OfflineDeleteFailsButUncaches ==
    [][\A u \in Users : \A id \in IssuedIds :
          (~StartsWithOffline(id) /\ ~online /\ DeleteCard(u, id, TRUE))
              => /\ last'.op = "delete" /\ last'.threw
                 /\ last'.calls = <<>>
                 /\ cards' = {r \in cards : r.id # id}
                 /\ remote' = remote]_vars

C13_Witness ==
    /\ ~online
    /\ last.op = "delete" /\ last.threw /\ last.calls = <<>>
    /\ \E doc \in Range(remote) :
          doc.userId = last.userId /\ doc.id \notin Ids(cards)

\* C14: updateCard on a record whose id starts with offline_ updates the
\* cached record only, makes no remote call, and throws to tell the caller
\* that the change is local only.
C14_UpdateOfflineIdReportsNotSynced ==
    [][\A u \in Users : \A c \in Edits(u) :
          (StartsWithOffline(c.id) /\ UpdateCard(u, c, TRUE))
              => /\ last'.op = "update" /\ last'.threw
                 /\ last'.calls = <<>>
                 /\ c \in cards'
                 /\ remote' = remote]_vars

\* C15: updateCard on a confirmed id called offline throws, getCachedCards of
\* the owner then returns the record with the edited fields, and the remote
\* collection is unchanged.
C15_OfflineUpdateEditsCache ==
    [][\A u \in Users : \A c \in Edits(u) :
          (~StartsWithOffline(c.id) /\ ~online /\ UpdateCard(u, c, TRUE))
              => /\ last'.op = "update" /\ last'.threw
                 /\ last'.calls = <<>>
                 /\ c \in Range(GetCachedCards(cards', u))
                 /\ remote' = remote]_vars

C15_Witness ==
    /\ ~online
    /\ last.op = "update" /\ last.threw /\ last.calls = <<>>
    /\ \E k \in Range(GetCachedCards(cards, last.userId)) :
          /\ ~StartsWithOffline(k.id)
          /\ k.name \in EditedNames
          /\ \E doc \in Range(remote) : doc.id = k.id /\ doc.name \notin EditedNames

\* C16: checkForDuplicates called online with the remote list throwing does
\* not throw and returns the duplicates found among the owner's cached cards,
\* as the offline path does.
C16_DuplicateCheckFallsBack ==
    [][\A u \in Users : \A c \in Contacts :
          (online /\ CheckForDuplicates(u, c, FALSE))
              => /\ last'.op = "duplicates" /\ ~last'.threw
                 /\ last'.result = CheckDuplicatesOffline(cards, u, c)]_vars

\* a card with its phone and mobile numbers exchanged
SwapPhones(card) == [card EXCEPT !.phone = card.mobile, !.mobile = card.phone]

\* C17: phones are compared by their digits: a candidate with phone
\* "+1 (555) 123-4567" is a duplicate of a record with phone "555.123.4567";
\* "5551234567" alone does not match "5559999999"; and exchanging phone and
\* mobile, of the candidate or of the record, does not change the result.
C17_PhoneDigitsMatch ==
    [][\A u \in Users : \A c \in Contacts :
          CheckForDuplicates(u, c, TRUE)
              => \A x \in Corpus(u) :
                    /\ (c.phone = PhoneIntl /\ x.phone = PhoneDotted)
                          => x \in Range(last'.result)
                    /\ (/\ PhoneNumbers(c) = {PhonePlain}
                        /\ PhoneNumbers(x) = {PhoneOther}
                        /\ ~NameMatch(x, c))
                          => x \notin Range(last'.result)
                    /\ x \in Range(last'.result) <=> IsDuplicate(x, SwapPhones(c))
                    /\ x \in Range(last'.result) <=> IsDuplicate(SwapPhones(x), c)]_vars

\* C18: the duplicate relation is symmetric: a record is reported for a
\* candidate exactly when the candidate would be reported, were it the record
\* checked against, for that record as the candidate.
C18_DuplicateIsSymmetric ==
    [][\A c \in Contacts :
          CheckForDuplicates(SignedIn, c, TRUE)
              => \A x \in Corpus(SignedIn) :
                    x \in Range(last'.result)
                        <=> FilterDuplicates(<<c>>, x) = <<c>>]_vars

C18_Witness ==
    /\ last.op = "duplicates"
    /\ \E x \in Range(last.result) :
          /\ x.name = NoString
          /\ x.phone = NoString
          /\ x.mobile = PhoneDotted

\* C19: no id that starts with offline_ reaches the remote store: no remote
\* document is ever stored under such an id, no pending upload carries one to
\* the create of a drain, and a deleteCard or updateCard that makes a remote
\* call was not given one.
C19_NoOfflineIdSentToRemote ==
    [][/\ \A doc \in Range(remote') : ~StartsWithOffline(doc.id)
       /\ \A p \in pendingUploads' : ~StartsWithOffline(p.cardData.id)
       /\ (last'.op = "delete" /\ last'.calls # <<>>)
             => \A u \in Users : \A id \in IssuedIds : \A ok \in BOOLEAN :
                   DeleteCard(u, id, ok) => ~StartsWithOffline(id)
       /\ (last'.op = "update" /\ last'.calls # <<>>)
             => \A u \in Users : \A c \in Edits(u) : \A ok \in BOOLEAN :
                   UpdateCard(u, c, ok) => ~StartsWithOffline(c.id)
      ]_vars

C19_Witness ==
    /\ online
    /\ last.op = "update" /\ ~last.threw /\ last.calls = <<>>
    /\ \E k \in cards : StartsWithOffline(k.id) /\ k.name \in EditedNames
    /\ \E pid \in DOMAIN ghost : ghost[pid].made = 1 /\ ghost[pid].deleted

\* C20 as stated: a deleteCard on a confirmed id that is no longer cached nor
\* in the remote collection (it was deleted before) never throws, the remote
\* delete itself not failing.
C20_SecondDeleteNeverThrows ==
    [][\A u \in Users : \A id \in IssuedIds :
          (/\ ~StartsWithOffline(id)
           /\ id \notin Ids(cards)
           /\ id \notin Ids(Range(remote))
           /\ DeleteCard(u, id, TRUE))
              => ~last'.threw]_vars

\* C20, amended: called online, the remote delete not failing, a deleteCard on
\* a confirmed id that is no longer cached nor in the remote collection does
\* not throw and changes neither store.
C20_SecondDeleteOnlineSucceeds ==
    [][\A u \in Users : \A id \in IssuedIds :
          (/\ ~StartsWithOffline(id)
           /\ online
           /\ id \notin Ids(cards)
           /\ id \notin Ids(Range(remote))
           /\ DeleteCard(u, id, TRUE))
              => /\ last'.op = "delete" /\ ~last'.threw
                 /\ last'.calls = <<<<"delete", TRUE>>>>
                 /\ cards' = cards
                 /\ remote' = remote]_vars

C20_Witness ==
    /\ online
    /\ last.op = "delete" /\ ~last.threw /\ last.calls = <<<<"delete", TRUE>>>>
    /\ docs = 1
    /\ DocId(1) \notin Ids(cards)
    /\ DocId(1) \notin Ids(Range(remote))

\* C22: a drain attempts the create of every pending upload of its snapshot:
\* after an iteration whose create threw, the call goes on with the uploads
\* after it, all of them, and returns only when none is left.
C22_DrainGoesOnAfterFailure ==
    [][DrainStep("indicator", FALSE) =>
          LET rest == Tail(drain["indicator"].queue)
          IN  /\ drain'["indicator"].queue = rest
              /\ (drain'["indicator"].pc = "run") <=> (rest # <<>>)
              /\ (drain'["indicator"].pc = "idle") <=> (rest = <<>>)]_vars

\* a drain has created an upload after the create of an earlier upload of its
\* snapshot failed
C22_Witness ==
    \E p \in pendingUploads : \E s \in drain["indicator"].synced :
        /\ p.retryCount = 1
        /\ p.id < s[1]

\* C27: once deleteCard has been called on the offline_ id of a save that no
\* drain has created remotely yet, no later drain creates that save remotely.
C27_DeletedNeverUploaded ==
    [][\A pid \in DOMAIN ghost :
          (ghost[pid].deleted /\ ghost[pid].made = 0) => ghost'[pid].made = 0]_vars

\* C28: the document a drain creates for a pending upload carries the fields
\* the cached offline_ record of that save has at that time, so the fields an
\* updateCard on the offline_ id has given it, not the fields first saved.
C28_DrainUploadsEditedFields ==
    [][DrainStep("indicator", TRUE) =>
          LET pending == Head(drain["indicator"].queue)
          IN  \A k \in cards :
                  k.id = ghost[pending.id].tmp => remote'[1].name = k.name]_vars

\* C23: a phone or mobile value without any digit never makes a phone match:
\* every record reported for a candidate matches it by name, or has a phone or
\* mobile value with the same digits, at least one, as a phone or mobile value
\* of the candidate. Records whose only phone values are "n/a" or "ext." are
\* not reported for each other.
C23_DigitFreePhonesNeverMatch ==
    [][\A c \in Contacts : \A ok \in BOOLEAN :
          CheckForDuplicates(SignedIn, c, ok) =>
              \A existingCard \in Range(last'.result) :
                  \/ NameMatch(existingCard, c)
                  \/ \E phone \in PhoneNumbers(c) :
                         \E existingPhone \in PhoneNumbers(existingCard) :
                             /\ DigitsOnly(phone) # <<>>
                             /\ DigitsOnly(phone) = DigitsOnly(existingPhone)]_vars

\* C24: every record getCards returns, from the remote collection or from the
\* cache, carries a timestamp that is present and parses.
C24_ListedTimestampsAreValid ==
    [][\A ok \in BOOLEAN :
          GetCards(SignedIn, ok) =>
              \A r \in Range(last'.result) :
                  r.timestamp # NoTimestamp /\ ~InvalidDate(r.timestamp)]_vars

\* C21: a saveCard or getCards call in which a local store operation has
\* failed throws: it does not return normally.
C21_LocalFailureIsReported ==
    [][/\ \A ok, cacheFails, queueFails, cacheOfflineFails \in BOOLEAN :
             \A c \in Inputs(SignedIn) :
                 (/\ SaveCardLocal(SignedIn, c, ok, cacheFails, queueFails,
                                   cacheOfflineFails)
                  /\ IF online /\ ok THEN cacheFails
                     ELSE queueFails \/ cacheOfflineFails)
                     => last'.threw
       /\ \A ok, cacheAllFails, readFails, fallbackReadFails \in BOOLEAN :
             (/\ GetCardsLocal(SignedIn, ok, cacheAllFails, readFails,
                               fallbackReadFails)
              /\ IF online /\ ok THEN cacheAllFails \/ readFails
                 ELSE fallbackReadFails)
                 => last'.threw]_vars

\* C29: one saveCard call leads to at most one document in the remote
\* collection, also when a local store operation fails after a remote create
\* has succeeded: with no document deleted, the collection never holds more
\* documents than saveCard calls were made, and no save is created twice.
C29_OneSaveOneRemoteRecord ==
    /\ Len(remote) <= saves
    /\ \A pid \in DOMAIN ghost : ghost[pid].made < 2

\* C30: with drains that keep being started while online and complete, every
\* pending upload leaves the queue, created remotely or abandoned: if the
\* device is online again and again, a pending count above 0 is followed by a
\* pending count of 0, whatever the remote creates do.
C30_QueueEventuallyEmpties ==
    ([]<>online) =>
        ((UserIndex(pendingUploads, SignedIn) # {})
            ~> (UserIndex(pendingUploads, SignedIn) = {}))

\* the queue is empty after one upload was abandoned and another created
C30_Witness ==
    /\ UserIndex(pendingUploads, SignedIn) = {}
    /\ \E pid \in DOMAIN ghost : ghost[pid].abandoned
    /\ \E pid \in DOMAIN ghost : ghost[pid].made = 1

\* C26: whenever the online event fires while a user is signed in, the
\* handler calls syncPendingUploads, whatever the connectivity was when the
\* user signed in and the listeners were registered; and so does the Sync
\* button.
C26_OnlineEventStartsDrain ==
    [][/\ (HandleOnline /\ indicator.userId # Undefined) => indicator'.calledSync
       /\ ClickSync => indicator'.calledSync]_vars

\* C25: a getCachedCards(userId) called while the transaction of a
\* cacheCards(userId, records) is in progress returns the owner's cached set
\* as it was before the cacheCards or as it is after it, whole: never a set
\* of which only some requests of the cacheCards have been applied.
C25_CachedReadIsNotHalfReplaced ==
    [][(GetCachedCardsEnd /\ tx.reader.concurrent) =>
          \/ last'.result = GetCachedCards(tx.before, tx.reader.userId)
          \/ last'.result =
                 GetCachedCards(CacheCards(tx.before, tx.userId, tx.cs),
                                tx.reader.userId)]_vars

\* a getCachedCards called during a cacheCards that changed the cached set has
\* returned a set that is not empty
C25_Witness ==
    /\ last.op = "cached"
    /\ tx.reader.pc = "none"
    /\ tx.reader.concurrent
    /\ last.result # <<>>
    /\ last.result # GetCachedCards(tx.before, tx.reader.userId)

====
